---- MODULE Spec2Model ----
(***************************************************************************)
(* Model of GameService (mnemonic/src/app/services/game.service.ts): the   *)
(* round/session state machine of the memory game.  Every public method    *)
(* of the service is one action that models the whole call, private        *)
(* helpers included.  The service is single-threaded and synchronous, so   *)
(* the phase "checking", which #checkRound sets on entry and overwrites    *)
(* before it returns, is never the phase of a state between two calls.     *)
(***************************************************************************)
EXTENDS Integers, Sequences, FiniteSets, TLC

\* ------------------------------------------------------------------ bounds
\* Clicks are played while currentLevel <= MaxLevel (caps level, score, grid).
MaxLevel == 2
\* SpecWide: clicks are played while currentLevel <= MaxWideLevel.
MaxWideLevel == 1
\* SpecInOrder: clicks are played while currentLevel <= MaxInOrderLevel.
MaxInOrderLevel == 7
\* SpecGen: #generateSequence runs on grids of size 1..MaxGenGridSize with
\* numTilesToLight in 0..MaxGenCount.
MaxGenGridSize == 3
MaxGenCount == 10

\* --------------------------------------------------------------- constants
InitialLevel == 1
InitialScore == 0
InitialGridSize == 3
InitialNumTilesToLight == 3

VARIABLES
  currentLevel,     \* signal currentLevel
  score,            \* signal score
  gameState,        \* signal gameState
  gridSize,         \* signal gridSize
  tiles,            \* signal tiles: the Tile[] array, 1-based here
  numTilesToLight,  \* signal numTilesToLight
  sequence,         \* #sequence
  playerInput,      \* #playerInput
  isInCombo,        \* #isInCombo
  lastCall,         \* history: the last call, the return it took and, for
                    \* a click that was taken, its tile
  scoreAtRoundStart \* history: the score when nextRound() last ran, or 0
                    \* since the constructor or resetGame()

progVars == <<currentLevel, score, gameState, gridSize, tiles, numTilesToLight,
              sequence, playerInput, isInCombo>>
vars == <<currentLevel, score, gameState, gridSize, tiles, numTilesToLight,
          sequence, playerInput, isInCombo, lastCall, scoreAtRoundStart>>

Phases == {"idle", "sequence", "input", "checking", "over"}

\* ----------------------------------------------------------------- helpers
Range(s) == {s[i] : i \in DOMAIN s}

\* Array.prototype.includes
Includes(s, x) == \E i \in DOMAIN s : s[i] = x

\* the least element of a non-empty set of integers
Least(S) == CHOOSE x \in S : \A y \in S : x <= y

\* A fresh tile as initializeGrid pushes it
NewTile(i) ==
  [id |-> i, lit |-> FALSE, selectedByPlayer |-> FALSE,
   isCorrectAndClicked |-> FALSE, isCorrectAndNotClicked |-> FALSE,
   isIncorrectAndClicked |-> FALSE]

\* faulty variant: the grid is built from the gridSize signal as it was before the call
InitializeGridStale(size) == [i \in 1..(gridSize * gridSize) |-> NewTile(i - 1)]

\* initializeGrid(): size*size fresh tiles with ids 0..size*size-1
InitializeGrid(size) == [i \in 1..(size * size) |-> NewTile(i - 1)]

\* the tiles.update of nextRound(): every flag cleared, ids kept
ClearFlags(ts) ==
  [i \in DOMAIN ts |->
     [ts[i] EXCEPT !.lit = FALSE, !.selectedByPlayer = FALSE,
                   !.isCorrectAndClicked = FALSE,
                   !.isCorrectAndNotClicked = FALSE,
                   !.isIncorrectAndClicked = FALSE]]

\* tiles().map(t => t.id)
TileIds(ts) == [i \in DOMAIN ts |-> ts[i].id]

\* faulty variant: the tile after the drawn one is removed
SpliceWrongIndex(s, r) ==
  [i \in 1..(Len(s) - 1) |-> IF i <= r + 1 THEN s[i] ELSE s[i + 1]]

\* faulty variant: the drawn tile is not removed from availableTiles
SpliceNothing(s, r) == s

\* availableTiles.splice(randomIndex, 1): the array without its element at
\* 0-based index r
Splice(s, r) == [i \in 1..(Len(s) - 1) |-> IF i <= r THEN s[i] ELSE s[i + 1]]

\* the values Math.floor(Math.random() * length) takes in this model: the
\* two ends of its range 0..length-1
RandomIndices(length) == {0, length - 1}

\* #generateSequence(): every sequence the loop can build from availableTiles
\* in numToLight iterations, stopping early when no tile is left
RECURSIVE GenerateSequence(_, _)
GenerateSequence(availableTiles, numToLight) ==
  IF numToLight <= 0 \/ Len(availableTiles) = 0
  THEN {<<>>}
  ELSE UNION {
         {<<availableTiles[r + 1]>> \o rest :
            rest \in GenerateSequence(Splice(availableTiles, r), numToLight - 1)}
         : r \in RandomIndices(Len(availableTiles))}

\* faulty variant: the clicked tile is not marked
SelectTileNone(ts, tileId) == ts

\* the tiles.update of handlePlayerTileClick
SelectTile(ts, tileId) ==
  [i \in DOMAIN ts |->
     IF ts[i].id = tileId THEN [ts[i] EXCEPT !.selectedByPlayer = TRUE]
     ELSE ts[i]]

\* isInSequence: this.#sequence[currentIndex] === tileId (undefined past the end)
IsInSequence(seq, currentIndex, tileId) ==
  currentIndex + 1 \in DOMAIN seq /\ seq[currentIndex + 1] = tileId

\* isCorrectClick: findIndex(id => id === tileId) !== -1
IsCorrectClick(seq, tileId) == Includes(seq, tileId)

\* faulty variant: the combo bonus no longer asks for the click's position
ScoreAfterClickAnyPosition(s, combo, seq, currentIndex, tileId) ==
  IF IsCorrectClick(seq, tileId)
  THEN IF combo THEN s + 2 ELSE s + 1
  ELSE s

\* faulty variant: a click outside the sequence costs a point
ScoreAfterClickPenalty(s, combo, seq, currentIndex, tileId) ==
  IF IsCorrectClick(seq, tileId)
  THEN IF combo /\ IsInSequence(seq, currentIndex, tileId) THEN s + 2 ELSE s + 1
  ELSE s - 1

\* faulty variant: a sequence tile clicked without the combo scores nothing
ScoreAfterClickNoBase(s, combo, seq, currentIndex, tileId) ==
  IF IsCorrectClick(seq, tileId) /\ combo /\ IsInSequence(seq, currentIndex, tileId)
  THEN s + 2
  ELSE s

\* the score after the scoring branch of handlePlayerTileClick
ScoreAfterClick(s, combo, seq, currentIndex, tileId) ==
  IF IsCorrectClick(seq, tileId)
  THEN IF combo /\ IsInSequence(seq, currentIndex, tileId) THEN s + 2 ELSE s + 1
  ELSE s

\* faulty variant: the combo is lost on every click
ComboAfterClickDropped(combo, seq, currentIndex, tileId) == FALSE

\* faulty variant: the combo survives a click on a sequence tile out of position
ComboAfterClickSticky(combo, seq, currentIndex, tileId) ==
  IF IsCorrectClick(seq, tileId) THEN combo ELSE FALSE

\* #isInCombo after the scoring branch of handlePlayerTileClick
ComboAfterClick(combo, seq, currentIndex, tileId) ==
  IF IsCorrectClick(seq, tileId)
  THEN combo /\ IsInSequence(seq, currentIndex, tileId)
  ELSE FALSE

\* faulty variant: the round is judged by position, not as a set
CorrectSelectionsInOrder(input, seq) == input = seq

\* correctSelections of #checkRound
CorrectSelections(input, seq) ==
  /\ \A i \in DOMAIN input : Includes(seq, input[i])
  /\ Len(input) = Len(seq)
  /\ \A i \in DOMAIN seq : Includes(input, seq[i])

\* faulty variant: the grid never grows
GrownGridSizeNever(g, n) == g

\* faulty variant: the growth test reads numTilesToLight from before its increment
GrownGridSizeStale(g, n) == IF 2 * (n - 1) > g * g THEN g + 1 ELSE g

\* grid growth of #checkRound: n is numTilesToLight after its increment;
\* currentGridCapacity / 2 is a floating-point division, so n > cap/2 is
\* 2*n > cap
GrownGridSize(g, n) == IF 2 * n > g * g THEN g + 1 ELSE g

\* faulty variant: the two flags of a wrong selection are exchanged
MarkRoundOutcomeSwapped(ts, seq, input) ==
  [i \in DOMAIN ts |->
     LET inSeq == Includes(seq, ts[i].id)
         clicked == Includes(input, ts[i].id)
     IN [ts[i] EXCEPT !.isCorrectAndClicked = inSeq /\ clicked,
                      !.isCorrectAndNotClicked = ~inSeq /\ clicked,
                      !.isIncorrectAndClicked = inSeq /\ ~clicked]]

\* faulty variant: isCorrectAndNotClicked is set for every tile of the sequence
MarkRoundOutcomeNoClickTest(ts, seq, input) ==
  [i \in DOMAIN ts |->
     LET inSeq == Includes(seq, ts[i].id)
         clicked == Includes(input, ts[i].id)
     IN [ts[i] EXCEPT !.isCorrectAndClicked = inSeq /\ clicked,
                      !.isCorrectAndNotClicked = inSeq,
                      !.isIncorrectAndClicked = ~inSeq /\ clicked]]

\* the tiles.update of the failure branch of #checkRound
MarkRoundOutcome(ts, seq, input) ==
  [i \in DOMAIN ts |->
     LET inSeq == Includes(seq, ts[i].id)
         clicked == Includes(input, ts[i].id)
     IN [ts[i] EXCEPT !.isCorrectAndClicked = inSeq /\ clicked,
                      !.isCorrectAndNotClicked = inSeq /\ ~clicked,
                      !.isIncorrectAndClicked = ~inSeq /\ clicked]]

\* ------------------------------------------------------------------- state
\* After the constructor: field initialisers, then initializeGrid()
Init ==
  /\ currentLevel = InitialLevel
  /\ score = InitialScore
  /\ gameState = "idle"
  /\ gridSize = InitialGridSize
  /\ tiles = InitializeGrid(InitialGridSize)
  /\ numTilesToLight = InitialNumTilesToLight
  /\ sequence = <<>>
  /\ playerInput = <<>>
  /\ isInCombo = FALSE
  /\ lastCall = [call |-> "constructor"]
  /\ scoreAtRoundStart = InitialScore

\* nextRound() run on the grid ts with n tiles to light: playerInput emptied,
\* combo set, flags cleared, a new sequence, phase "sequence"
NextRound(ts, n) ==
  /\ playerInput' = <<>>
  /\ isInCombo' = TRUE
  /\ tiles' = ClearFlags(ts)
  /\ sequence' \in GenerateSequence(TileIds(ClearFlags(ts)), n)
  /\ gameState' = "sequence"

\* startGame()
StartGame ==
  /\ currentLevel' = InitialLevel
  /\ score' = InitialScore
  /\ numTilesToLight' = InitialNumTilesToLight
  /\ gridSize' = InitialGridSize
  /\ NextRound(InitializeGrid(InitialGridSize), InitialNumTilesToLight)
  /\ lastCall' = [call |-> "startGame"]
  /\ scoreAtRoundStart' = InitialScore

\* resetGame(): the grid, #sequence and #playerInput are left as they are
ResetGame ==
  /\ currentLevel' = InitialLevel
  /\ score' = InitialScore
  /\ isInCombo' = FALSE
  /\ numTilesToLight' = InitialNumTilesToLight
  /\ gridSize' = InitialGridSize
  /\ gameState' = "idle"
  /\ UNCHANGED <<tiles, sequence, playerInput>>
  /\ lastCall' = [call |-> "resetGame"]
  /\ scoreAtRoundStart' = InitialScore

\* The rendering layer's trigger once the reveal animation is done
RevealDone ==
  /\ gameState = "sequence"
  /\ gameState' = "input"
  /\ UNCHANGED <<currentLevel, score, gridSize, tiles, numTilesToLight,
                 sequence, playerInput, isInCombo>>
  /\ lastCall' = [call |-> "revealDone"]
  /\ UNCHANGED scoreAtRoundStart

\* #checkRound() called with the click's input, tiles and score
CheckRound(input, ts, s) ==
  IF CorrectSelections(input, sequence)
  THEN /\ currentLevel' = currentLevel + 1
       /\ numTilesToLight' = numTilesToLight + 1
       /\ gridSize' = GrownGridSize(gridSize, numTilesToLight + 1)
       /\ score' = s
       /\ NextRound(InitializeGrid(GrownGridSize(gridSize, numTilesToLight + 1)),
                    numTilesToLight + 1)
       /\ scoreAtRoundStart' = s
  ELSE /\ isInCombo' = FALSE
       /\ tiles' = MarkRoundOutcome(ts, sequence, input)
       /\ gameState' = "over"
       /\ score' = s
       /\ playerInput' = input
       /\ UNCHANGED <<currentLevel, numTilesToLight, gridSize, sequence>>
       /\ UNCHANGED scoreAtRoundStart

\* faulty variant: clicks are also taken while the sequence is revealed
WrongPhaseOnlyAtRest == gameState \notin {"input", "sequence"}

\* faulty variant: clicks are refused only before a game has started
WrongPhaseOnlyIdle == gameState = "idle"

\* the phase guard of handlePlayerTileClick
WrongPhase == gameState # "input"

\* faulty variant: only the tile clicked last counts as already selected
AlreadySelectedLastOnly(tileId) ==
  playerInput # <<>> /\ playerInput[Len(playerInput)] = tileId

\* faulty variant: the already-selected guard is missing
AlreadySelectedNever(tileId) == FALSE

\* the already-selected guard of handlePlayerTileClick
AlreadySelected(tileId) == Includes(playerInput, tileId)

\* which return of handlePlayerTileClick(tileId) the call takes: the phase
\* guard, the already-selected guard, or the end of the method
ClickReturn(tileId) ==
  IF WrongPhase THEN [call |-> "clickWrongPhase"]
  ELSE IF AlreadySelected(tileId) THEN [call |-> "clickDuplicate"]
  ELSE [call |-> "click", tile |-> tileId]

\* faulty variant: the round is also evaluated as soon as a tile outside the
\* sequence is selected
EnoughSelectionsOrWrong(input, seq) ==
  Len(input) = Len(seq) \/ \E i \in DOMAIN input : ~Includes(seq, input[i])

\* the test of handlePlayerTileClick that the player has made enough selections
EnoughSelections(input, seq) == Len(input) = Len(seq)

\* handlePlayerTileClick(tileId)
HandlePlayerTileClick(tileId) ==
  /\ lastCall' = ClickReturn(tileId)
  /\ IF WrongPhase \/ AlreadySelected(tileId)
     THEN UNCHANGED <<progVars, scoreAtRoundStart>>
     ELSE LET input == Append(playerInput, tileId)
              ts == SelectTile(tiles, tileId)
              currentIndex == Len(input) - 1
              s == ScoreAfterClick(score, isInCombo, sequence, currentIndex, tileId)
              combo == ComboAfterClick(isInCombo, sequence, currentIndex, tileId)
          IN IF EnoughSelections(input, sequence)
             THEN CheckRound(input, ts, s)
             ELSE /\ playerInput' = input
                  /\ tiles' = ts
                  /\ score' = s
                  /\ isInCombo' = combo
                  /\ UNCHANGED <<currentLevel, gameState, gridSize,
                                 numTilesToLight, sequence, scoreAtRoundStart>>

\* the tiles of the grid that are not in the sequence
WrongTiles == Range(TileIds(tiles)) \ Range(sequence)

\* The tile ids the player clicks: every tile of the sequence and, of the
\* tiles outside it, the one with the least id
ClickIds ==
  Range(sequence) \cup (IF WrongTiles = {} THEN {} ELSE {Least(WrongTiles)})

Next ==
  \/ StartGame
  \/ ResetGame
  \/ RevealDone
  \/ \E tileId \in ClickIds :
       currentLevel <= MaxLevel /\ HandlePlayerTileClick(tileId)

Spec == Init /\ [][Next]_vars

\* A wider choice of tile ids to click: every tile of the sequence and, of
\* the tiles outside it, those with the least and the greatest id
ClickIdsWide ==
  Range(sequence) \cup
    {x \in WrongTiles : \/ \A y \in WrongTiles : x <= y
                        \/ \A y \in WrongTiles : x >= y}

NextWide ==
  \/ StartGame
  \/ ResetGame
  \/ RevealDone
  \/ \E tileId \in ClickIdsWide :
       currentLevel <= MaxWideLevel /\ HandlePlayerTileClick(tileId)

\* The service with a player who may select two tiles outside the sequence
SpecWide == Init /\ [][NextWide]_vars

\* The tile the sequence has at the position of the next click
NextTile ==
  IF Len(playerInput) < Len(sequence)
  THEN {sequence[Len(playerInput) + 1]}
  ELSE {}

NextInOrder ==
  \/ StartGame
  \/ ResetGame
  \/ RevealDone
  \/ \E tileId \in NextTile :
       currentLevel <= MaxInOrderLevel /\ HandlePlayerTileClick(tileId)

\* The service with a player who repeats every sequence in order
SpecInOrder == Init /\ [][NextInOrder]_vars

\* #generateSequence() taken alone: any grid size and any numTilesToLight
InitGen ==
  /\ gridSize \in 1..MaxGenGridSize
  /\ numTilesToLight \in 0..MaxGenCount
  /\ tiles = InitializeGrid(gridSize)
  /\ currentLevel = InitialLevel
  /\ score = InitialScore
  /\ gameState = "idle"
  /\ sequence = <<>>
  /\ playerInput = <<>>
  /\ isInCombo = FALSE
  /\ lastCall = [call |-> "constructor"]
  /\ scoreAtRoundStart = InitialScore

\* one call of #generateSequence()
Generate ==
  /\ sequence' \in GenerateSequence(TileIds(tiles), numTilesToLight)
  /\ lastCall' = [call |-> "generateSequence"]
  /\ UNCHANGED <<currentLevel, score, gameState, gridSize, tiles,
                 numTilesToLight, playerInput, isInCombo, scoreAtRoundStart>>

SpecGen == InitGen /\ [][Generate]_vars

\* ------------------------------------------------------------------ claims
\* the calls of handlePlayerTileClick, by the return they took
ClickCalls == {"click", "clickWrongPhase", "clickDuplicate"}

\* the calls that restart the session
RestartCalls == {"startGame", "resetGame"}

\* the step is a call handlePlayerTileClick(t), t = lastCall'.tile, made in
\* phase "input" with a tile not yet in playerInput, and taken
AcceptedClick ==
  /\ lastCall'.call = "click"
  /\ gameState = "input"
  /\ ~Includes(playerInput, lastCall'.tile)

\* the click brings playerInput to the length of the sequence
CompletesRound == Len(playerInput) + 1 = Len(sequence)

\* playerInput with the clicked tile appended holds the same set of ids as
\* the sequence
SameSet == Range(Append(playerInput, lastCall'.tile)) = Range(sequence)

\* the step is the accepted click that wins the round
RoundWon == AcceptedClick /\ CompletesRound /\ SameSet

\* C1: an accepted click that brings playerInput to the length of the sequence
\* succeeds iff input and sequence hold the same set of ids, whatever the
\* order: on success currentLevel and numTilesToLight rise by 1, playerInput
\* is emptied and the phase is "sequence"; otherwise the phase is "over" and
\* currentLevel, numTilesToLight and gridSize are unchanged.
C1_RoundOutcome ==
  [][(AcceptedClick /\ CompletesRound) =>
       IF SameSet
       THEN /\ currentLevel' = currentLevel + 1
            /\ numTilesToLight' = numTilesToLight + 1
            /\ playerInput' = <<>>
            /\ gameState' = "sequence"
       ELSE /\ gameState' = "over"
            /\ UNCHANGED <<currentLevel, numTilesToLight, gridSize>>]_vars

\* C1 witness: the first round was won with clicks out of order (fewer than
\* 2 points per click), and the second round has begun
C1_Witness ==
  /\ lastCall.call = "click"
  /\ gameState = "sequence"
  /\ currentLevel = 2
  /\ score < 2 * InitialNumTilesToLight

\* the clicked tile is the one the sequence has at the click's 0-based
\* position Len(playerInput), and combo-eligible is true
InComboInPosition ==
  /\ isInCombo
  /\ Len(playerInput) < Len(sequence)
  /\ sequence[Len(playerInput) + 1] = lastCall'.tile

\* the score an accepted click is to give: 2 more in combo and in position,
\* else 1 more for a tile of the sequence, else none
ClaimedScore ==
  IF InComboInPosition THEN score + 2
  ELSE IF lastCall'.tile \in Range(sequence) THEN score + 1
  ELSE score

\* C2 as stated: every accepted click scores 2 and keeps combo-eligible true
\* when in combo and in position; otherwise combo-eligible is false after it
\* and it scores 1 for a tile of the sequence, 0 for any other tile.
C2_AsStated ==
  [][AcceptedClick =>
       /\ score' = ClaimedScore
       /\ isInCombo' = InComboInPosition]_vars

\* C2 amended: every accepted click scores as stated; combo-eligible is as
\* stated after every click that does not win the round, and is true after
\* the click that wins it (the next round has begun), in position or not.
C2_ScoreAndCombo ==
  [][AcceptedClick =>
       /\ score' = ClaimedScore
       /\ isInCombo' = IF CompletesRound /\ SameSet THEN TRUE
                       ELSE InComboInPosition]_vars

\* C2 witness: in the first round the first click was in position (2 points),
\* the second was a tile of the sequence out of position (1 point, combo lost)
C2_Witness ==
  /\ gameState = "input"
  /\ lastCall.call = "click"
  /\ currentLevel = 1
  /\ Len(playerInput) = 2
  /\ playerInput[1] = sequence[1]
  /\ playerInput[2] = sequence[3]
  /\ score = 3
  /\ ~isInCombo

\* C3: on every round success, with g the gridSize before and n' the
\* numTilesToLight after its increment, gridSize becomes g+1 iff 2*n' > g*g
\* and stays g otherwise.
C3_GridGrowth ==
  [][RoundWon =>
       /\ numTilesToLight' = numTilesToLight + 1
       /\ (gridSize' = gridSize + 1) <=> (2 * numTilesToLight' > gridSize * gridSize)
       /\ gridSize' \in {gridSize, gridSize + 1}]_vars

\* C3 witness: a round success has grown the grid by one
C3_Witness ==
  /\ lastCall.call = "click"
  /\ gameState = "sequence"
  /\ gridSize = InitialGridSize + 1
  /\ 2 * numTilesToLight > InitialGridSize * InitialGridSize

\* C4: handleTileClick in a phase other than "input" changes nothing.
C4_ClickOutsideInputIgnored ==
  [][(gameState # "input" /\ lastCall'.call \in ClickCalls)
       => UNCHANGED progVars]_vars

\* C4 witness: a click made after the game was lost has returned at the
\* phase guard
C4_Witness ==
  /\ lastCall.call = "clickWrongPhase"
  /\ gameState = "over"
  /\ score > 0

\* C5: in phase "input", handleTileClick with a tile already in playerInput
\* changes nothing and evaluates no round.
C5_DuplicateClickIgnored ==
  [][\A t \in Range(playerInput) :
       (gameState = "input" /\ HandlePlayerTileClick(t))
         => UNCHANGED progVars]_vars

\* C5 witness: with two tiles selected, a click has returned at the
\* already-selected guard
C5_Witness ==
  /\ lastCall.call = "clickDuplicate"
  /\ gameState = "input"
  /\ Len(playerInput) = 2

\* the phase changes the state machine of the claim names; a click that ends
\* a round passes through "checking" inside one call
StatedEdges ==
  {<<"idle", "sequence">>, <<"sequence", "input">>, <<"input", "checking">>,
   <<"checking", "sequence">>, <<"checking", "over">>,
   <<"input", "sequence">>, <<"input", "over">>, <<"over", "idle">>}

\* C6 as stated: the phase starts "idle" and changes only along
\* idle -> sequence -> input -> checking -> {sequence | over}, and from
\* "over" only to "idle".
C6_AsStated ==
  /\ gameState = "idle"
  /\ [][gameState' # gameState => <<gameState, gameState'>> \in StatedEdges]_vars

\* C6 amended: the phase starts "idle"; a click or the reveal-done trigger
\* changes it only along sequence -> input -> (checking ->) {sequence | over};
\* in phase "over" only startGame and resetGame change any state; startGame
\* leads from every phase to "sequence", resetGame from every phase to "idle".
C6_PhaseEdges ==
  /\ gameState = "idle"
  /\ [][/\ lastCall'.call = "startGame" => gameState' = "sequence"
        /\ lastCall'.call = "resetGame" => gameState' = "idle"
        /\ lastCall'.call \notin RestartCalls =>
             \/ gameState' = gameState
             \/ <<gameState, gameState'>> \in
                  {<<"sequence", "input">>, <<"input", "sequence">>,
                   <<"input", "over">>}
        /\ (gameState = "over" /\ lastCall'.call \notin RestartCalls)
             => UNCHANGED progVars]_vars

\* C6 witness: the click that lost the round has just led from "input" to
\* "over"
C6_Witness ==
  /\ gameState = "over"
  /\ lastCall.call = "click"
  /\ Len(playerInput) = Len(sequence)

\* C7: in every reachable state the grid has gridSize*gridSize tiles and
\* their ids are 0..gridSize*gridSize-1.
C7_TilesMatchGridSize ==
  /\ Len(tiles) = gridSize * gridSize
  /\ {tiles[i].id : i \in DOMAIN tiles} = 0..(gridSize * gridSize - 1)

\* the four session fields
SessionFields == <<currentLevel, score, gridSize, numTilesToLight>>

\* the defaults of the four session fields
SessionDefaults ==
  <<InitialLevel, InitialScore, InitialGridSize, InitialNumTilesToLight>>

\* C8 as stated: startGame and resetGame set the session fields to 1, 0, 3, 3
\* and no other step but a round success changes any of the four.
C8_AsStated ==
  [][/\ lastCall'.call \in RestartCalls => SessionFields' = SessionDefaults
     /\ (lastCall'.call \notin RestartCalls /\ ~RoundWon)
          => UNCHANGED SessionFields]_vars

\* C8 amended: startGame and resetGame set the session fields to 1, 0, 3, 3;
\* no other step but a round success changes currentLevel, gridSize or
\* numTilesToLight; the score changes in no other step but an accepted click
\* on a tile of the sequence, which raises it by 1 or 2, whether or not the
\* click ends a round.
C8_SessionFields ==
  [][/\ lastCall'.call \in RestartCalls => SessionFields' = SessionDefaults
     /\ (lastCall'.call \notin RestartCalls /\ ~RoundWon)
          => /\ UNCHANGED <<currentLevel, gridSize, numTilesToLight>>
             /\ score' \in {score, score + 1, score + 2}
             /\ score' # score =>
                  (AcceptedClick /\ lastCall'.tile \in Range(sequence))]_vars

\* C8 witness: the click that lost the first round was on a tile of the
\* sequence and raised the score, while level, grid and length stayed
C8_Witness ==
  /\ gameState = "over"
  /\ lastCall.call = "click"
  /\ playerInput[Len(playerInput)] \in Range(sequence)
  /\ score > 0
  /\ <<currentLevel, gridSize, numTilesToLight>> =
       <<InitialLevel, InitialGridSize, InitialNumTilesToLight>>

\* C9: right after startGame, whatever the state it was called in:
\* currentLevel 1, score 0, gridSize 3, numTilesToLight 3, 9 tiles with ids
\* 0..8 and every flag false, playerInput empty, combo-eligible true, a
\* sequence of 3 distinct ids of 0..8, phase "sequence".
C9_StartGameState ==
  lastCall.call = "startGame" =>
    /\ SessionFields = SessionDefaults
    /\ Len(tiles) = InitialGridSize * InitialGridSize
    /\ \A i \in DOMAIN tiles :
         /\ tiles[i].id = i - 1
         /\ ~tiles[i].lit /\ ~tiles[i].selectedByPlayer
         /\ ~tiles[i].isCorrectAndClicked /\ ~tiles[i].isCorrectAndNotClicked
         /\ ~tiles[i].isIncorrectAndClicked
    /\ playerInput = <<>>
    /\ isInCombo
    /\ Len(sequence) = InitialNumTilesToLight
    /\ Cardinality(Range(sequence)) = InitialNumTilesToLight
    /\ Range(sequence) \subseteq 0..(InitialGridSize * InitialGridSize - 1)
    /\ gameState = "sequence"

\* C9 witness: startGame has just returned with a sequence that ends on the
\* last tile of the grid
C9_Witness ==
  /\ lastCall.call = "startGame"
  /\ gameState = "sequence"
  /\ sequence[Len(sequence)] = InitialGridSize * InitialGridSize - 1

\* C10: in the phases "sequence", "input" and "over" the sequence has
\* numTilesToLight entries, no id twice, and every entry is the id of a tile
\* of the grid.
C10_SequenceWellFormed ==
  gameState \in {"sequence", "input", "over"} =>
    /\ Len(sequence) = numTilesToLight
    /\ Cardinality(Range(sequence)) = Len(sequence)
    /\ Range(sequence) \subseteq {tiles[i].id : i \in DOMAIN tiles}

\* C10 witness: in the grown grid a sequence holds a tile the 3x3 grid does
\* not have
C10_Witness ==
  /\ gameState = "input"
  /\ gridSize > InitialGridSize
  /\ \E i \in DOMAIN sequence : sequence[i] >= InitialGridSize * InitialGridSize

\* input is a prefix of seq
PrefixOf(input, seq) ==
  Len(input) <= Len(seq) /\ \A i \in DOMAIN input : input[i] = seq[i]

\* C11: playerInput never holds an id twice and is never longer than the
\* sequence; in phase "sequence", the start of every round, it is empty.
C11_PlayerInputWellFormed ==
  /\ Cardinality(Range(playerInput)) = Len(playerInput)
  /\ Len(playerInput) <= Len(sequence)
  /\ gameState = "sequence" => playerInput = <<>>

\* C11 witness: one tile short of the sequence, a click on a tile already
\* selected was not recorded
C11_Witness ==
  /\ gameState = "input"
  /\ lastCall.call = "clickDuplicate"
  /\ Len(playerInput) = Len(sequence) - 1

\* the step is an accepted click on the tile the sequence has at the click's
\* position, after clicks that were all in position
InOrderClick ==
  AcceptedClick /\ PrefixOf(Append(playerInput, lastCall'.tile), sequence)

\* C12: while the player clicks Sequence[0], Sequence[1], ... in that order,
\* every click awards 2 points; the last one makes the gain of the round
\* 2*n and wins the round (from the start state: score 6, level 2,
\* numTilesToLight 4, gridSize 3).
C12_InOrderRound ==
  [][InOrderClick =>
       /\ score' = score + 2
       /\ score' = scoreAtRoundStart + 2 * (Len(playerInput) + 1)
       /\ CompletesRound =>
            /\ score' = scoreAtRoundStart + 2 * Len(sequence)
            /\ currentLevel' = currentLevel + 1
            /\ numTilesToLight' = numTilesToLight + 1
            /\ gameState' = "sequence"
            /\ currentLevel = InitialLevel =>
                 <<score', currentLevel', numTilesToLight', gridSize'>> = <<6, 2, 4, 3>>]_vars

\* C12 witness: the first round was won in order, the second has begun
C12_Witness ==
  /\ lastCall.call = "click"
  /\ gameState = "sequence"
  /\ <<score, currentLevel, numTilesToLight, gridSize>> = <<6, 2, 4, 3>>
  /\ scoreAtRoundStart = 6

\* the number of leading clicks of input that were at their position in seq
LeadingMatches(input, seq) ==
  Cardinality({k \in DOMAIN input : \A i \in 1..k : input[i] = seq[i]})

\* C13: a round in which every tile of the sequence was clicked once, in an
\* order other than the sequence's, is won, and its gain is n + k, k the
\* number of leading clicks in position; the gain is at most 2*n - 2.
C13_OutOfOrderRound ==
  [][(RoundWon /\ Append(playerInput, lastCall'.tile) # sequence) =>
       LET input == Append(playerInput, lastCall'.tile)
           n == Len(sequence)
       IN /\ currentLevel' = currentLevel + 1
          /\ gameState' = "sequence"
          /\ score' = scoreAtRoundStart + n + LeadingMatches(input, sequence)
          /\ score' - scoreAtRoundStart <= 2 * n - 2]_vars

\* C13 witness: the first round was won with the first click alone in
\* position (gain 3 + 1), the second has begun
C13_Witness ==
  /\ lastCall.call = "click"
  /\ gameState = "sequence"
  /\ currentLevel = InitialLevel + 1
  /\ score = InitialNumTilesToLight + 1
  /\ scoreAtRoundStart = score

\* C14: whenever combo-eligible is true, playerInput is the first
\* Len(playerInput) entries of the sequence.
C14_ComboMeansInOrder == isInCombo => PrefixOf(playerInput, sequence)

\* C14 witness: two clicks in position, combo-eligible still true
C14_Witness ==
  /\ gameState = "input"
  /\ isInCombo
  /\ Len(playerInput) = 2
  /\ lastCall.call = "click"

\* the number of flags of the set fs that tile t has true
FlagsSet(t, fs) ==
  Cardinality({f \in fs : t[f]})

\* C15 as stated: on every tile at most one of selectedByPlayer,
\* isCorrectAndClicked, isCorrectAndNotClicked, isIncorrectAndClicked is true.
C15_AsStated ==
  \A i \in DOMAIN tiles :
    FlagsSet(tiles[i], {"selectedByPlayer", "isCorrectAndClicked",
                        "isCorrectAndNotClicked", "isIncorrectAndClicked"}) <= 1

\* C15 amended: on every tile at most one of isCorrectAndClicked,
\* isCorrectAndNotClicked, isIncorrectAndClicked is true, and
\* selectedByPlayer is never true together with isCorrectAndNotClicked.
C15_OutcomeFlagsExclusive ==
  \A i \in DOMAIN tiles :
    /\ FlagsSet(tiles[i], {"isCorrectAndClicked", "isCorrectAndNotClicked",
                           "isIncorrectAndClicked"}) <= 1
    /\ ~(tiles[i].selectedByPlayer /\ tiles[i].isCorrectAndNotClicked)

\* C15 witness: after a lost round one tile is selected and correct-and-
\* clicked, another is correct-and-not-clicked
C15_Witness ==
  /\ gameState = "over"
  /\ \E i \in DOMAIN tiles : tiles[i].selectedByPlayer /\ tiles[i].isCorrectAndClicked
  /\ \E i \in DOMAIN tiles : tiles[i].isCorrectAndNotClicked

\* the three flags #checkRound computes when a round is lost
OutcomeFlags ==
  {"isCorrectAndClicked", "isCorrectAndNotClicked", "isIncorrectAndClicked"}

\* the step is the accepted click that loses the round
RoundLost == AcceptedClick /\ CompletesRound /\ ~SameSet

\* C16: the step that loses a round annotates every tile from the final
\* sequence and playerInput: isCorrectAndClicked iff in both,
\* isCorrectAndNotClicked iff in the sequence only, isIncorrectAndClicked iff
\* in playerInput only, at most one of the three per tile; no other step
\* sets any of the three true.
C16_OutcomeAnnotation ==
  [][/\ RoundLost =>
          /\ DOMAIN tiles' = DOMAIN tiles
          /\ \A i \in DOMAIN tiles' :
               LET t == tiles'[i]
                   inSeq == t.id \in Range(sequence')
                   clicked == t.id \in Range(playerInput')
               IN /\ t.id = tiles[i].id
                  /\ t.isCorrectAndClicked = (inSeq /\ clicked)
                  /\ t.isCorrectAndNotClicked = (inSeq /\ ~clicked)
                  /\ t.isIncorrectAndClicked = (~inSeq /\ clicked)
                  /\ FlagsSet(t, OutcomeFlags) <= 1
     /\ ~RoundLost =>
          \A i \in DOMAIN tiles' : \A f \in OutcomeFlags :
            tiles'[i][f] => (i \in DOMAIN tiles /\ tiles[i][f])]_vars

\* C16 witness: a round was lost with two tiles outside the sequence and one
\* tile of the sequence selected, and some tile carries none of the flags
C16_Witness ==
  /\ gameState = "over"
  /\ lastCall.call = "click"
  /\ Cardinality({i \in DOMAIN tiles : tiles[i].isIncorrectAndClicked}) = 2
  /\ \E i \in DOMAIN tiles : tiles[i].isCorrectAndClicked
  /\ \E i \in DOMAIN tiles : FlagsSet(tiles[i], OutcomeFlags) = 0

\* C17: numTilesToLight never exceeds the number of tiles, every sequence in
\* play has exactly numTilesToLight entries, and at every round start
\* 2*numTilesToLight <= gridSize*gridSize.
C17_SequenceNeverTruncated ==
  /\ numTilesToLight <= Len(tiles)
  /\ gameState \in {"sequence", "input", "over"} => Len(sequence) = numTilesToLight
  /\ gameState = "sequence" => 2 * numTilesToLight <= gridSize * gridSize

\* C17 witness: a round starts on the grid that has grown twice
C17_Witness ==
  /\ gameState = "sequence"
  /\ lastCall.call = "click"
  /\ gridSize = InitialGridSize + 2
  /\ Len(sequence) = numTilesToLight

\* C18: #generateSequence on a grid of g*g tiles with numTilesToLight = n
\* gives min(n, g*g) entries, no id twice, ids of the grid only, and for
\* n > g*g every id of the grid.
C18_GenerateSequence ==
  lastCall.call = "generateSequence" =>
    LET ids == {tiles[i].id : i \in DOMAIN tiles}
        n == numTilesToLight
        cap == gridSize * gridSize
    IN /\ Len(sequence) = IF n < cap THEN n ELSE cap
       /\ Cardinality(Range(sequence)) = Len(sequence)
       /\ Range(sequence) \subseteq ids
       /\ n > cap => Range(sequence) = ids

\* C18 witness: more tiles were asked for than the 3x3 grid has, and the
\* sequence holds each of its 9 tiles
C18_Witness ==
  /\ lastCall.call = "generateSequence"
  /\ gridSize = InitialGridSize
  /\ numTilesToLight > Len(tiles)
  /\ Len(sequence) = Len(tiles)

\* C19: in phase "input" playerInput is shorter than the sequence; an
\* accepted click that does not bring it to the length of the sequence
\* leaves the phase "input", whatever the tile; the click that does ends the
\* round; in phase "over" playerInput has the length of the sequence.
C19_EvaluatedOnLastClick ==
  /\ [](gameState = "input" => Len(playerInput) < Len(sequence))
  /\ [](gameState = "over" => Len(playerInput) = Len(sequence))
  /\ [][/\ (AcceptedClick /\ ~CompletesRound) => gameState' = "input"
        /\ (AcceptedClick /\ CompletesRound) => gameState' \in {"sequence", "over"}
        /\ gameState' = "over" /\ gameState # "over" =>
             (AcceptedClick /\ CompletesRound)]_vars

\* C19 witness: a tile outside the sequence was clicked first and the phase
\* is still "input"
C19_Witness ==
  /\ gameState = "input"
  /\ lastCall.call = "click"
  /\ Len(playerInput) = 1
  /\ playerInput[1] \notin Range(sequence)

\* the tiles that have flag f true
TilesWith(f) == {i \in DOMAIN tiles : tiles[i][f]}

\* C20: in phase "over" at least one tile is incorrect-and-clicked, at least
\* one is correct-and-not-clicked, there are as many of the one as of the
\* other, and every tile that is correct-and-clicked or incorrect-and-clicked
\* is selectedByPlayer.
C20_FailureAnnotationCounts ==
  gameState = "over" =>
    /\ TilesWith("isIncorrectAndClicked") # {}
    /\ TilesWith("isCorrectAndNotClicked") # {}
    /\ Cardinality(TilesWith("isIncorrectAndClicked")) =
         Cardinality(TilesWith("isCorrectAndNotClicked"))
    /\ (TilesWith("isCorrectAndClicked") \cup TilesWith("isIncorrectAndClicked"))
         \subseteq TilesWith("selectedByPlayer")

\* C20 witness: a round was lost with two tiles of the sequence left out
C20_Witness ==
  /\ gameState = "over"
  /\ Cardinality(TilesWith("isCorrectAndNotClicked")) = 2
  /\ Cardinality(TilesWith("selectedByPlayer")) = InitialNumTilesToLight

====
